---- MODULE Spec2Model ----
(***************************************************************************)
(* nimi: a container init that supervises a set of services.               *)
(*                                                                         *)
(* The model has one Fleet Controller (ProcessManager::run) and one        *)
(* Supervisor task per spawned ServiceManager (ServiceManager::run).       *)
(* The environment delivers the signals INT, TERM and HUP, lets children   *)
(* exit with a status, lets spawns, kills and file operations fail, and    *)
(* lets restart timers elapse.                                             *)
(***************************************************************************)
EXTENDS Naturals, Integers, Sequences, FiniteSets, TLC

VARIABLES
    ctl,            \* position of ProcessManager::run
    result,         \* what ProcessManager::run returned: "none", "ok", "err"
    registered,     \* signals for which an OS handler is installed
    pend,           \* signals a live listener of the Controller has recorded
    cancelled,      \* cancel_tok: set once, never reset
    sigs,           \* number of signals delivered so far
    got,            \* the INT / TERM signals delivered since the Controller started
    startChild,     \* TRUE once the startup program has been spawned
    settings,       \* self.settings
    services,       \* self.services: name -> Service
    service_hashes, \* service_hashes of run: name -> fingerprint
    sup,            \* the tasks of services_set, in spawn order
    command,        \* args.command of main: "validate" or "run"
    startRes,       \* the startup program: "none", "spawn_failed", "running",
                    \* "exit0", "exitN"
    logsFs,         \* the logs path: number N -> what is at {logs_path}/logs-N
    cfgFs,          \* the temporary directory: directory name -> its symlinks
    inp,            \* the arguments of the function under study
    out,            \* the values the function under study has returned
    reloaded,       \* how the last reload_config ended: "none", "ok", "failed"
    ctrl_c,         \* TRUE when the ctrl_c() of the select the loop is in has
                    \* been polled: a listener for INT exists
    logs_dir,       \* logs_dir of spawn_child_processes and of reload_config,
                    \* between create_logs_dir and the spawn loop
    new_config      \* new_config.services of reload_config, between the
                    \* parse and the spawn loop

vars == << ctl, result, registered, pend, cancelled, sigs, got, startChild,
           settings, services, service_hashes, sup,
           command, startRes, logsFs, cfgFs, inp, out, reloaded,
           ctrl_c, logs_dir, new_config >>

----------------------------------------------------------------------------
(* Bounds of the model *)

\* largest restart.count of the enumerated settings
MaxCount == 1

\* number of signals the environment delivers in one run
MaxSignals == 2

\* number of Supervisor tasks one run may spawn (startup + reloads)
MaxTasks == 2

\* spawn attempts the model lets one Supervisor make: mode always has no bound
\* of its own and is cut off after the first restart; the other modes never
\* get to this cap
MaxAttempts(s) == IF s.mode = "always" THEN 2 ELSE s.count + 2

----------------------------------------------------------------------------
(* Data *)

RestartModes == {"never", "up-to-count", "always"}

Signals == {"INT", "TERM", "HUP"}

\* Settings: restart.mode, restart.count, restart.time (in timer ticks) and
\* startup.run_on_startup (TRUE: a startup binary is configured) and
\* logging.logs_dir (TRUE: a logs path is configured).
\* Settings::default(): mode never, count 0, time 0, no startup binary, no
\* logs path
DefaultSettings ==
    [mode |-> "never", count |-> 0, time |-> 0, startup |-> FALSE, logs |-> FALSE]

\* The enumerated configurations of the whole program: the default policy
\* with a startup binary and a logs path, and the policy always with a
\* restart delay, without either.
SettingsSet ==
    {[DefaultSettings EXCEPT !.startup = TRUE, !.logs = TRUE],
     [DefaultSettings EXCEPT !.mode = "always", !.time = 1]}

\* The configurations a Supervisor is studied under on its own: up-to-count
\* with every count up to MaxCount, without and with a restart delay
RestartSettings ==
    { [DefaultSettings EXCEPT !.mode = "up-to-count", !.count = c, !.time = d] :
        c \in 0..MaxCount, d \in {0, 1} }

\* a config_data map with no entry
NoConfigData == [k \in {} |-> [path |-> "p", source |-> "s"]]

\* a config_data map with one entry: key 1, the link q to the source s
OneConfigData == (<<1>> :> [path |-> "q", source |-> "s"])

\* A Service: process.argv and config_data, a map from key to ConfigData
\* (the path of the link inside the config directory and its source).
SvcA  == [argv |-> << <<1>>, <<2>> >>,        config_data |-> OneConfigData]
SvcA2 == [argv |-> << <<1>>, <<2>>, <<3>> >>, config_data |-> OneConfigData]
SvcB  == [argv |-> << <<1>>, <<3>> >>,        config_data |-> NoConfigData]

\* Configuration documents: the services section, name -> Service.
\* DocA is the document the process starts with; a reload reads DocA again
\* (nothing changed), DocA2 (a changed) or DocAB (b is new).
DocA  == ("a" :> SvcA)
DocA2 == ("a" :> SvcA2)
DocAB == ("a" :> SvcA) @@ ("b" :> SvcB)
Docs  == {DocA, DocA2, DocAB}

NoServices == [n \in {} |-> SvcA]

\* a document whose services section is empty: a reload to it removes every
\* service
DocNone == [n \in {} |-> SvcA]

\* argv.binary(): the executable, the first element of argv
binary(svc) == Head(svc.argv)

\* argv.args(): the arguments, argv without the executable
args(svc) == Tail(svc.argv)

RECURSIVE LexLess(_, _)
\* byte-wise order of two strings (Ord for String)
LexLess(a, b) ==
    IF a = <<>> THEN b # <<>>
    ELSE IF b = <<>> THEN FALSE
    ELSE IF Head(a) # Head(b) THEN Head(a) < Head(b)
    ELSE LexLess(Tail(a), Tail(b))

RECURSIVE SortedKeys(_)
\* keys.sort(): the keys of config_data in ascending order
SortedKeys(S) ==
    IF S = {} THEN <<>>
    ELSE LET m == CHOOSE x \in S : \A y \in S \ {x} : LexLess(x, y)
         IN  <<m>> \o SortedKeys(S \ {m})

RECURSIVE ArgsStream(_)
\* each argument followed by a NUL byte
ArgsStream(as) ==
    IF as = <<>> THEN <<>>
    ELSE Head(as) \o <<0>> \o ArgsStream(Tail(as))

RECURSIVE KeysStream(_)
\* the sorted keys, one after the other with nothing between them
KeysStream(ks) ==
    IF ks = <<>> THEN <<>>
    ELSE Head(ks) \o KeysStream(Tail(ks))

\* the bytes fed to the hasher, in the order of the update calls
HashInput(svc) ==
    ArgsStream(args(svc)) \o binary(svc)
        \o KeysStream(SortedKeys(DOMAIN svc.config_data))

\* service_hash: SHA-256 of HashInput in hex. The digest is modelled as an
\* injective function of its input, so a fingerprint is the input itself.
service_hash(svc) == HashInput(svc)

----------------------------------------------------------------------------
(* The logs path *)

\* what is at {logs_path}/logs-N: nothing, a directory, or something that is
\* not a directory
LogsKinds == {"absent", "dir", "file"}

\* a logs path with no entry
NoLogs == [n \in {} |-> "absent"]

\* logs_dir of a Supervisor whose settings have no logs path (None)
NoLogsDir == 0 - 1

\* a temporary directory with no config directory in it
NoDirs == [d \in {} |-> {}]

EntryAt(fs, n) == IF n \in DOMAIN fs THEN fs[n] ELSE "absent"

CreateDir(kind) == IF kind = "absent" THEN "ok" ELSE "already_exists"

\* fs::create_dir_all on logs-N: Ok(()) when the directory was created and
\* when it was there already, AlreadyExists when the path is taken by
\* something that is not a directory
CreateDirAll(kind) == IF kind \in {"absent", "dir"} THEN "ok" ELSE "already_exists"

RECURSIVE FirstCreated(_, _)
\* the loop of create_logs_dir from logs_no on: the first N for which
\* create_dir_all returns Ok(())
FirstCreated(fs, logs_no) ==
    IF CreateDirAll(EntryAt(fs, logs_no)) = "ok" THEN logs_no
    ELSE FirstCreated(fs, logs_no + 1)

\* create_logs_dir when no call fails for another reason: the N of the
\* directory it returns, and the logs path afterwards
create_logs_dir(fs) ==
    LET n == FirstCreated(fs, 0)
    IN  [no |-> n,
         fs |-> [i \in DOMAIN fs \cup {n} |-> IF i = n THEN "dir" ELSE fs[i]]]

----------------------------------------------------------------------------
(* The config directory *)

\* ConfigData: the path of the link inside the config directory and the
\* source it points to
ConfigDatums == [path : {"p", "q"}, source : {"s", "t"}]

\* the keys of the enumerated config_data maps
ConfigKeys == {<<1>>, <<2>>}

\* config_data: a HashMap from key to ConfigData
ConfigMaps == UNION { [K -> ConfigDatums] : K \in SUBSET ConfigKeys }

\* the orders in which a HashMap with the keys K may be iterated: the order
\* depends on the hasher's random seed of the map instance
IterationOrders(K) ==
    { s \in [1..Cardinality(K) -> K] : \A k \in K : \E i \in DOMAIN s : s[i] = k }

\* serde_json::to_vec of the map: the entries in iteration order
Serialise(map, order) == [i \in DOMAIN order |-> << order[i], map[order[i]] >>]

\* generate_config_directory_name: "nimi-config-" and the SHA-256 of the
\* serialisation in hex.  The digest is modelled as an injective function of
\* its input, so a name is the serialisation itself.
generate_config_directory_name(map, order) == Serialise(map, order)

\* fs::create_dir(cfg_dir_path) on the temporary directory fs: AlreadyExists
\* when something has the name, another error when fails, else the directory
\* is there and empty
fs_create_dir(fs, dir_name, fails) ==
    IF dir_name \in DOMAIN fs THEN [res |-> "already_exists", fs |-> fs]
    ELSE IF fails THEN [res |-> "err", fs |-> fs]
    ELSE [res |-> "ok",
          fs  |-> [d \in DOMAIN fs \cup {dir_name} |->
                     IF d = dir_name THEN {} ELSE fs[d]]]

\* fs::symlink(cfg.source, cfg_dir_path.join(cfg.path)): an error when
\* something is at the path already or when fails, else the link is there
fs_symlink(fs, dir_name, cfg, fails) ==
    IF fails \/ cfg.path \in {l[1] : l \in fs[dir_name]}
    THEN [res |-> "err", fs |-> fs]
    ELSE [res |-> "ok",
          fs  |-> [fs EXCEPT ![dir_name] = @ \cup {<< cfg.path, cfg.source >>}]]

----------------------------------------------------------------------------
(* Supervisor: ServiceManager *)

\* A task of services_set.
\*   pc       "new"   in ServiceManager::new, before fs::create_dir of
\*                    ConfigDir::new
\*            "links" in the loop over config_data.values() of ConfigDir::new
\*            "spawn" at the top of the loop of run, before create_service_child
\*            "run"   in the select of spawn_service_process, child alive
\*            "kill"  in process.kill(): SIGKILL is sent, the child's exit is
\*                    awaited
\*            "delay" in the select of the restart delay
\*            "ok"    the task returned Ok(())
\*            "err"   the task returned Err
\*   cnt      current_restart_count
\*   attempts number of calls of create_service_child
\*   last     how the last spawn_service_process, or the delay after it, ended:
\*            "spawn_failed", "exit0", "exitN" (the wait branch returned Err:
\*            a non-zero status, or no status at all), "kill_ok", "kill_err",
\*            "delay_shutdown"; "none" while a child runs
\*   rx       a message is waiting in shutdown_rx
\*   timer    the sleep of the restart delay has elapsed
\*   joined   the Controller has taken the task's result out of services_set
\*   settings opts.settings: the settings the Supervisor runs under
\*   logs     opts.logs_dir: the N of logs-N, NoLogsDir for None
\*   sent     the signals the shutdown branch has sent to the child, in order
\*   demux    the log demultiplexer tasks started by the last call of
\*            spawn_service_process that have not ended; they are followed
\*            until run leaves the restart delay after that call
\*   order    the order in which the task's config_data map is iterated
\*   next     the position of the loop over config_data.values()
\*   config_dir  the name of the config directory (cfg_dir_path)
NewTask(name, svc, task_logs_dir, task_settings) ==
    [name |-> name, svc |-> svc, settings |-> task_settings, pc |-> "new", cnt |-> 0, attempts |-> 0,
     last |-> "none", rx |-> FALSE, timer |-> FALSE, joined |-> FALSE,
     logs |-> task_logs_dir, sent |-> <<>>, demux |-> 0,
     order |-> <<>>, next |-> 1, config_dir |-> <<>>]

Tasks == DOMAIN sup

Completed(i) == sup[i].pc \in {"ok", "err"}

\* the process is running: tasks are polled
Alive == ctl \notin {"init", "done", "killed"}

ShouldRestartOffByOne(mode, cnt, count) ==
    CASE mode = "always"      -> TRUE
      [] mode = "up-to-count" -> ~(cnt > count)
      [] mode = "never"       -> FALSE

ShouldRestartNeverRestarts(mode, cnt, count) ==
    CASE mode = "always"      -> TRUE
      [] mode = "up-to-count" -> ~(cnt >= count)
      [] mode = "never"       -> TRUE

\* the match on settings.restart.mode in run: TRUE when run goes on to the delay
ShouldRestart(mode, cnt, count) ==
    CASE mode = "always"      -> TRUE
      [] mode = "up-to-count" -> ~(cnt >= count)
      [] mode = "never"       -> FALSE

\* run after spawn_service_process returned Err(e): the restart decision
\* under self.settings of the ServiceManager
AfterError(s, e) ==
    LET t == [s EXCEPT !.last = e]
    IN  IF ShouldRestart(s.settings.mode, t.cnt, s.settings.count)
        THEN [t EXCEPT !.pc = "delay",
                       !.cnt = IF s.settings.mode = "up-to-count" THEN @ + 1 ELSE @,
                       !.timer = (s.settings.time = 0)]
        ELSE [t EXCEPT !.pc = "ok"]

\* ServiceManager::new, ConfigDir::new up to the match on fs::create_dir:
\* AlreadyExists returns the directory at once, another error is returned
\* (the task ends with it), Ok goes on to the loop over config_data.values()
SupNew(i) ==
    /\ Alive
    /\ sup[i].pc = "new"
    /\ \E order \in IterationOrders(DOMAIN sup[i].svc.config_data),
          mkdirFails \in BOOLEAN :
         LET dir_name == generate_config_directory_name(sup[i].svc.config_data, order)
             r == fs_create_dir(cfgFs, dir_name, mkdirFails)
         IN  /\ cfgFs' = r.fs
             /\ sup' = [sup EXCEPT ![i] =
                    CASE r.res = "already_exists" ->
                           [sup[i] EXCEPT !.pc = "spawn", !.config_dir = dir_name]
                      [] r.res = "err" -> [sup[i] EXCEPT !.pc = "err"]
                      [] r.res = "ok" ->
                           [sup[i] EXCEPT !.pc = IF order = <<>> THEN "spawn" ELSE "links",
                                     !.order = order, !.config_dir = dir_name]]
    /\ UNCHANGED << ctrl_c, logs_dir, new_config,
                    command, startRes, logsFs, inp, out, reloaded,
                    ctl, result, registered, pend, cancelled, sigs, got, startChild,
                    settings, services, service_hashes >>

\* ConfigDir::new, one turn of the loop over config_data.values():
\* fs::symlink, whose error is returned; after the last turn ConfigDir::new
\* and ServiceManager::new return Ok and the task goes on to run
SupSymlink(i) ==
    /\ Alive
    /\ sup[i].pc = "links"
    /\ \E fails \in BOOLEAN :
         LET s == sup[i]
             r == fs_symlink(cfgFs, s.config_dir,
                             s.svc.config_data[s.order[s.next]], fails)
         IN  /\ cfgFs' = r.fs
             /\ sup' = [sup EXCEPT ![i] =
                    IF r.res = "err" THEN [s EXCEPT !.pc = "err"]
                    ELSE IF s.next = Len(s.order)
                    THEN [s EXCEPT !.pc = "spawn", !.next = 1, !.order = <<>>]
                    ELSE [s EXCEPT !.next = s.next + 1]]
    /\ UNCHANGED << ctrl_c, logs_dir, new_config,
                    command, startRes, logsFs, inp, out, reloaded,
                    ctl, result, registered, pend, cancelled, sigs, got, startChild,
                    settings, services, service_hashes >>

\* Logger::Stdout.start and Logger::Stderr.start: one detached task each
LoggersStarted == 2

\* create_service_child: the child is spawned and its two loggers are
\* started, or the spawn fails and the error goes to the restart decision of
\* run
SupSpawn(i) ==
    /\ Alive
    /\ sup[i].pc = "spawn"
    /\ sup[i].attempts < MaxAttempts(sup[i].settings)
    /\ \E ok \in BOOLEAN :
         LET s == [sup[i] EXCEPT !.attempts = @ + 1, !.sent = <<>>]
         IN  sup' = [sup EXCEPT ![i] =
                        IF ok THEN [s EXCEPT !.pc = "run", !.last = "none",
                                             !.demux = LoggersStarted]
                        ELSE AfterError(s, "spawn_failed")]
    /\ UNCHANGED << ctrl_c, logs_dir, new_config,
                    command, startRes, logsFs, cfgFs, inp, out, reloaded,
                    ctl, result, registered, pend, cancelled, sigs, got, startChild,
                    settings, services, service_hashes >>

\* process.kill(): Child::kill sends SIGKILL at once and then awaits the
\* child's exit; nothing is sent before it and nothing is waited for
KillSignals == << "KILL" >>

\* select in spawn_service_process, branch shutdown_rx.recv(), up to the
\* await inside process.kill(): the message is taken and SIGKILL is sent; a
\* kill that cannot be sent is an error of spawn_service_process
SupShutdownRecv(i) ==
    /\ Alive
    /\ sup[i].pc = "run"
    /\ sup[i].rx
    /\ \E sent_ok \in BOOLEAN :
         LET s == [sup[i] EXCEPT !.rx = FALSE]
         IN  sup' = [sup EXCEPT ![i] =
                        IF sent_ok THEN [s EXCEPT !.pc = "kill", !.sent = @ \o KillSignals]
                        ELSE AfterError(s, "kill_err")]
    /\ UNCHANGED << ctrl_c, logs_dir, new_config,
                    command, startRes, logsFs, cfgFs, inp, out, reloaded,
                    ctl, result, registered, pend, cancelled, sigs, got, startChild,
                    settings, services, service_hashes >>

\* process.kill() resumes: the child was reaped and spawn_service_process
\* returns Ok(()), or the wait failed, which is an error of
\* spawn_service_process
SupKillWait(i) ==
    /\ Alive
    /\ sup[i].pc = "kill"
    /\ \E reaped \in BOOLEAN :
         sup' = [sup EXCEPT ![i] =
                    IF reaped THEN [sup[i] EXCEPT !.pc = "ok", !.last = "kill_ok"]
                    ELSE AfterError(sup[i], "kill_err")]
    /\ UNCHANGED << ctrl_c, logs_dir, new_config,
                    command, startRes, logsFs, cfgFs, inp, out, reloaded,
                    ctl, result, registered, pend, cancelled, sigs, got, startChild,
                    settings, services, service_hashes >>

\* select in spawn_service_process, branch process.wait(): the child exited
SupChildExit(i) ==
    /\ Alive
    /\ sup[i].pc = "run"
    /\ \E st \in {"exit0", "exitN"} :
         sup' = [sup EXCEPT ![i] =
                    IF st = "exit0" THEN [sup[i] EXCEPT !.pc = "ok", !.last = "exit0"]
                    ELSE AfterError(sup[i], st)]
    /\ UNCHANGED << ctrl_c, logs_dir, new_config,
                    command, startRes, logsFs, cfgFs, inp, out, reloaded,
                    ctl, result, registered, pend, cancelled, sigs, got, startChild,
                    settings, services, service_hashes >>

\* restart.time has passed since the delay began
SupTimer(i) ==
    /\ Alive
    /\ sup[i].pc = "delay"
    /\ ~sup[i].timer
    /\ sup' = [sup EXCEPT ![i].timer = TRUE]
    /\ UNCHANGED << ctrl_c, logs_dir, new_config,
                    command, startRes, logsFs, cfgFs, inp, out, reloaded,
                    ctl, result, registered, pend, cancelled, sigs, got, startChild,
                    settings, services, service_hashes >>

\* select of the restart delay, branch sleep: back to the top of the loop
SupDelayElapsed(i) ==
    /\ Alive
    /\ sup[i].pc = "delay"
    /\ sup[i].timer
    /\ sup' = [sup EXCEPT ![i].pc = "spawn", ![i].timer = FALSE, ![i].last = "none",
                           ![i].sent = <<>>, ![i].demux = 0]
    /\ UNCHANGED << ctrl_c, logs_dir, new_config,
                    command, startRes, logsFs, cfgFs, inp, out, reloaded,
                    ctl, result, registered, pend, cancelled, sigs, got, startChild,
                    settings, services, service_hashes >>

\* select of the restart delay, branch shutdown_rx.recv(): return Ok(())
SupDelayShutdown(i) ==
    /\ Alive
    /\ sup[i].pc = "delay"
    /\ sup[i].rx
    /\ sup' = [sup EXCEPT ![i].pc = "ok", ![i].rx = FALSE, ![i].timer = FALSE,
                           ![i].last = "delay_shutdown", ![i].demux = 0]
    /\ UNCHANGED << ctrl_c, logs_dir, new_config,
                    command, startRes, logsFs, cfgFs, inp, out, reloaded,
                    ctl, result, registered, pend, cancelled, sigs, got, startChild,
                    settings, services, service_hashes >>

----------------------------------------------------------------------------
(* Fleet Controller: ProcessManager *)

RECURSIVE SpawnAll(_, _, _, _)
\* one task per service of doc whose name is in names
SpawnAll(doc, names, task_logs_dir, task_settings) ==
    IF names = {} THEN <<>>
    ELSE LET n == CHOOSE x \in names : TRUE
         IN  <<NewTask(n, doc[n], task_logs_dir, task_settings)>>
             \o SpawnAll(doc, names \ {n}, task_logs_dir, task_settings)

ToRestartAll(old_hashes, new_hashes) == DOMAIN new_hashes

\* reload_config: the names of the new document that are new or changed
ToRestart(old_hashes, new_hashes) ==
    { n \in DOMAIN new_hashes :
        ~(n \in DOMAIN old_hashes /\ old_hashes[n] = new_hashes[n]) }

Hashes(doc) == [n \in DOMAIN doc |-> service_hash(doc[n])]

CancelOnServiceResultErr(res) == res = "err"

\* the arms of the match on the result of join_next: none of them cancels
CancelOnServiceResult(res) == FALSE

DrainFinishedEarly(s) == TRUE

\* `while services_set.join_next().await.is_some() {}` ends when the set is empty
DrainFinished(s) == \A i \in DOMAIN s : s[i].joined

\* cancel_tok.cancel(): every Supervisor's shutdown_rx gets the message
Broadcast(s) == [i \in DOMAIN s |-> [s[i] EXCEPT !.rx = TRUE]]

StartupSucceededAlways(st) == TRUE

\* run_startup_process: eyre::ensure!(status.success(), ..) lets run go on
\* only after the startup program exited with status 0
StartupSucceeded(st) == st = "exit0"

\* main: the match on args.command prints a line in either arm, and the code
\* after the match builds the ProcessManager and awaits manager.run() whatever
\* the subcommand was
RunsManager(cmd) == cmd \in {"validate", "run"}

\* run, up to the startup program: the TERM and HUP handlers are registered,
\* the fingerprints are computed, the startup program (if any) is spawned
ControllerStart ==
    /\ ctl = "init"
    /\ RunsManager(command)
    /\ registered' = {"TERM", "HUP"}
    /\ service_hashes' = Hashes(services)
    /\ IF settings.startup
       THEN \E ok \in BOOLEAN :
              IF ok THEN /\ ctl' = "startup"
                         /\ startChild' = TRUE
                         /\ startRes' = "running"
                         /\ result' = result
                    ELSE /\ ctl' = "done"
                         /\ result' = "err"
                         /\ startRes' = "spawn_failed"
                         /\ startChild' = startChild
       ELSE /\ ctl' = "spawn"
            /\ UNCHANGED << result, startChild, startRes >>
    /\ UNCHANGED << ctrl_c, logs_dir, new_config,
                    command, logsFs, cfgFs, inp, out, reloaded,
                    pend, cancelled, sigs, got, settings, services, sup >>

\* run_startup_process, branch process.wait() of the select: a non-zero
\* status or a failed wait is an error of run; after status 0 the function
\* goes on to set.join_all().  The other branch of the select,
\* cancel_tok.cancelled(), is never ready here: cancel_tok is set only in
\* the loop of run, which starts after run_startup_process returned.
StartupExit ==
    /\ ctl = "startup"
    /\ \E st \in {"exit0", "exitN"} :
         /\ startRes' = st
         /\ IF StartupSucceeded(st)
            THEN ctl' = "startup_join" /\ result' = result
            ELSE ctl' = "done" /\ result' = "err"
    /\ UNCHANGED << ctrl_c, logs_dir, new_config,
                    command, logsFs, cfgFs, inp, out, reloaded,
                    registered, pend, cancelled, sigs, got, startChild,
                    settings, services, service_hashes, sup >>

\* run_startup_process, set.join_all(): the two logger tasks of the startup
\* program have ended (its output streams are closed); their results are
\* collected, and an Err among them is an error of run
StartupJoinAll ==
    /\ ctl = "startup_join"
    /\ \E ok \in BOOLEAN :
         IF ok THEN ctl' = "spawn" /\ result' = result
         ELSE ctl' = "done" /\ result' = "err"
    /\ UNCHANGED << ctrl_c, logs_dir, new_config,
                    command, startRes, logsFs, cfgFs, inp, out, reloaded,
                    registered, pend, cancelled, sigs, got, startChild,
                    settings, services, service_hashes, sup >>

\* a branch of the select of the loop is ready: a task of services_set has
\* completed or the set is empty, or a TERM or HUP is pending
SelectReady(s, pending) ==
    \/ \E i \in DOMAIN s : s[i].pc \in {"ok", "err"} /\ ~s[i].joined
    \/ \A i \in DOMAIN s : s[i].joined
    \/ pending \cap {"TERM", "HUP"} # {}

\* The select of the loop polls its branches in an order chosen at random
\* and stops at the first that is ready.  ctrl_c() installs the INT handler
\* and starts to listen when it is polled for the first time: polled is TRUE
\* when a poll came to ctrl_c().
HandlersAfterPoll(polled) ==
    IF polled THEN registered \cup {"INT"} ELSE registered

\* run has come to the select of the loop and polls it with no branch ready:
\* every branch is polled, so ctrl_c() has installed the INT handler and
\* listens, and run waits.  The tasks of services_set run on the worker
\* threads of the runtime, so they may take steps between the step that
\* brought run to the select and this poll; with a branch ready the poll is
\* part of the step that takes the branch.
SelectPoll ==
    /\ ctl = "loop"
    /\ ~ctrl_c
    /\ ~SelectReady(sup, pend)
    /\ ctrl_c' = TRUE
    /\ registered' = HandlersAfterPoll(TRUE)
    /\ UNCHANGED << logs_dir, new_config,
                    command, startRes, logsFs, cfgFs, inp, out, reloaded,
                    ctl, result, pend, cancelled, sigs, got, startChild,
                    settings, services, service_hashes, sup >>

\* spawn_child_processes with a logs path, up to the await of
\* create_logs_dir: the logs directory is created; when that fails run
\* returns the error
SpawnLogsDir ==
    /\ ctl = "spawn"
    /\ settings.logs
    /\ \E ok \in BOOLEAN :
         IF ok
         THEN LET r == create_logs_dir(logsFs)
              IN  /\ logsFs' = r.fs
                  /\ logs_dir' = r.no
                  /\ ctl' = "spawn_services"
                  /\ result' = result
         ELSE /\ ctl' = "done"
              /\ result' = "err"
              /\ UNCHANGED << logsFs, logs_dir >>
    /\ UNCHANGED << ctrl_c, new_config,
                    command, startRes, cfgFs, inp, out, reloaded,
                    registered, pend, cancelled, sigs, got, startChild,
                    settings, services, service_hashes, sup >>

\* spawn_child_processes from the logs directory on (the whole function when
\* there is no logs path): one task per service; run comes to the select of
\* its loop
SpawnChildProcesses ==
    /\ \/ ctl = "spawn" /\ ~settings.logs
       \/ ctl = "spawn_services"
    /\ sup' = SpawnAll(services, DOMAIN services, logs_dir, settings)
    /\ services' = NoServices
    /\ logs_dir' = NoLogsDir
    /\ ctl' = "loop"
    /\ UNCHANGED << ctrl_c, new_config,
                    command, startRes, logsFs, cfgFs, inp, out, reloaded,
                    result, registered, pend, cancelled, sigs, got, startChild,
                    settings, service_hashes >>

\* loop, branch join_next() = Some(res): the result is logged and run comes
\* to the select again
JoinNext(i) ==
    /\ ctl = "loop"
    /\ Completed(i)
    /\ ~sup[i].joined
    /\ sup' = LET s == [sup EXCEPT ![i].joined = TRUE]
              IN  IF CancelOnServiceResult(sup[i].pc) THEN Broadcast(s) ELSE s
    /\ cancelled' = (cancelled \/ CancelOnServiceResult(sup[i].pc))
    /\ pend' = pend \ {"INT"}
    /\ ctrl_c' = FALSE
    /\ \E polled \in BOOLEAN : registered' = HandlersAfterPoll(polled)
    /\ UNCHANGED << logs_dir, new_config,
                    command, startRes, logsFs, cfgFs, inp, out, reloaded,
                    ctl, result, sigs, got, startChild,
                    settings, services, service_hashes >>

\* loop, branch join_next() = None: all services have exited
JoinNone ==
    /\ ctl = "loop"
    /\ \A i \in Tasks : sup[i].joined
    /\ ctl' = "done"
    /\ result' = "ok"
    /\ pend' = pend \ {"INT"}
    /\ ctrl_c' = FALSE
    /\ \E polled \in BOOLEAN : registered' = HandlersAfterPoll(polled)
    /\ UNCHANGED << logs_dir, new_config,
                    command, startRes, logsFs, cfgFs, inp, out, reloaded,
                    cancelled, sigs, got, startChild,
                    settings, services, service_hashes, sup >>

\* loop, branches ctrl_c() and sigterm.recv(): cancel, then drain
OnShutdownSignal(sig) ==
    /\ ctl = "loop"
    /\ sig \in {"INT", "TERM"}
    /\ sig \in pend
    /\ cancelled' = TRUE
    /\ sup' = Broadcast(sup)
    /\ pend' = pend \ {sig, "INT"}
    /\ ctrl_c' = FALSE
    /\ \E polled \in BOOLEAN : registered' = HandlersAfterPoll(polled)
    /\ ctl' = "drain"
    /\ UNCHANGED << logs_dir, new_config,
                    command, startRes, logsFs, cfgFs, inp, out, reloaded,
                    result, sigs, got, startChild,
                    settings, services, service_hashes >>

\* one turn of `while services_set.join_next().await.is_some() {}`
DrainNext(i) ==
    /\ ctl = "drain"
    /\ ~DrainFinished(sup)
    /\ Completed(i)
    /\ ~sup[i].joined
    /\ sup' = [sup EXCEPT ![i].joined = TRUE]
    /\ UNCHANGED << ctrl_c, logs_dir, new_config,
                    command, startRes, logsFs, cfgFs, inp, out, reloaded,
                    ctl, result, registered, pend, cancelled, sigs, got, startChild,
                    settings, services, service_hashes >>

\* the drain loop ends, run breaks out of the loop and returns Ok(())
DrainDone ==
    /\ ctl = "drain"
    /\ DrainFinished(sup)
    /\ ctl' = "done"
    /\ result' = "ok"
    /\ UNCHANGED << ctrl_c, logs_dir, new_config,
                    command, startRes, logsFs, cfgFs, inp, out, reloaded,
                    registered, pend, cancelled, sigs, got, startChild,
                    settings, services, service_hashes, sup >>

\* loop, branch sighup.recv(): reload_config starts reading the document
ReloadBegin ==
    /\ ctl = "loop"
    /\ "HUP" \in pend
    /\ pend' = pend \ {"HUP", "INT"}
    /\ ctrl_c' = FALSE
    /\ \E polled \in BOOLEAN : registered' = HandlersAfterPoll(polled)
    /\ ctl' = "reload"
    /\ UNCHANGED << logs_dir, new_config,
                    command, startRes, logsFs, cfgFs, inp, out, reloaded,
                    result, cancelled, sigs, got, startChild,
                    settings, services, service_hashes, sup >>

ReloadFailureKeepsNewHashes(old_hashes, new_hashes) == new_hashes

\* the fingerprint map after a failed reload_config: every `?` of the
\* function comes before `*service_hashes = new_hashes`
ReloadFailureKeeps(old_hashes, new_hashes) == old_hashes

\* reload_config failed: the document could not be read or parsed.  The
\* error is logged.
ReloadFail(doc) ==
    /\ ctl = "reload"
    /\ ctl' = "loop"
    /\ service_hashes' = ReloadFailureKeeps(service_hashes, Hashes(doc))
    /\ reloaded' = "failed"
    /\ UNCHANGED << ctrl_c, logs_dir, new_config,
                    command, startRes, logsFs, cfgFs, inp, out,
                    result, registered, pend, cancelled, sigs, got, startChild,
                    settings, services, sup >>

\* reload_config with a logs path, from the document read to the await of
\* create_logs_dir: the document doc is parsed and the logs directory is
\* created; when that fails reload_config returns the error, which is logged
ReloadLogsDir(doc) ==
    /\ ctl = "reload"
    /\ settings.logs
    /\ \E ok \in BOOLEAN :
         IF ok
         THEN LET r == create_logs_dir(logsFs)
              IN  /\ logsFs' = r.fs
                  /\ logs_dir' = r.no
                  /\ new_config' = doc
                  /\ ctl' = "reload_spawn"
                  /\ UNCHANGED << service_hashes, reloaded, ctrl_c, registered >>
         ELSE /\ ctl' = "loop"
              /\ service_hashes' = ReloadFailureKeeps(service_hashes, Hashes(doc))
              /\ reloaded' = "failed"
              /\ UNCHANGED << logsFs, logs_dir, new_config, ctrl_c, registered >>
    /\ UNCHANGED << command, startRes, cfgFs, inp, out,
                    result, pend, cancelled, sigs, got, startChild,
                    settings, services, sup >>

\* the settings section of the document a reload reads: another restart mode
\* than the one in force
DocumentSettings(current) ==
    [current EXCEPT !.mode = IF @ = "always" THEN "never" ELSE "always"]

ReloadSettingsFromDocument(current, doc_settings) == doc_settings

\* the settings reload_config gives the Supervisors it spawns: a clone of its
\* parameter settings, which is self.settings; the settings section of the
\* document it parsed is not read
ReloadSettings(current, doc_settings) == current

\* reload_config succeeds with the document doc, whose settings section
\* differs from the settings in force: from the logs directory on (from the
\* document read on when there is no logs path) the changed and new services
\* are spawned and the fingerprints replaced
ReloadOk(doc) ==
    /\ \/ ctl = "reload" /\ ~settings.logs
       \/ ctl = "reload_spawn" /\ doc = new_config
    /\ LET doc_settings == DocumentSettings(settings)
           new_hashes == Hashes(doc)
           to_restart == ToRestart(service_hashes, new_hashes)
       IN  /\ Len(sup) + Cardinality(to_restart) <= MaxTasks
           /\ sup' = sup \o SpawnAll(doc, to_restart, logs_dir,
                                     ReloadSettings(settings, doc_settings))
           /\ service_hashes' = new_hashes
    /\ services' = doc
    /\ logs_dir' = NoLogsDir
    /\ new_config' = NoServices
    /\ ctl' = "loop"
    /\ reloaded' = "ok"
    /\ UNCHANGED << ctrl_c, command, startRes, logsFs, cfgFs, inp, out,
                    result, registered, pend, cancelled, sigs, got, startChild,
                    settings >>

----------------------------------------------------------------------------
(* Environment: signals *)

\* A signal reaches the process.  TERM and HUP have a listener from the
\* start of run.  INT has a handler only after the first poll of a ctrl_c()
\* of the loop, and a listener only while the select of the loop has polled
\* its ctrl_c() and is waiting; without a handler the default disposition
\* applies: the process is terminated, or (process identity 1) the signal is
\* ignored.
Deliver(sig) ==
    /\ Alive
    /\ sigs < MaxSignals
    /\ sigs' = sigs + 1
    /\ got' = got \cup ({sig} \ {"HUP"})
    /\ IF sig \in registered
       THEN /\ pend' = IF sig = "INT" /\ ~ctrl_c THEN pend ELSE pend \cup {sig}
            /\ ctl' = ctl
       ELSE /\ pend' = pend
            /\ \E dies \in BOOLEAN : ctl' = IF dies THEN "killed" ELSE ctl
    /\ UNCHANGED << ctrl_c, logs_dir, new_config,
                    command, startRes, logsFs, cfgFs, inp, out, reloaded,
                    result, registered, cancelled, startChild,
                    settings, services, service_hashes, sup >>

----------------------------------------------------------------------------

Init ==
    /\ ctl = "init"
    /\ result = "none"
    /\ registered = {}
    /\ pend = {}
    /\ cancelled = FALSE
    /\ sigs = 0
    /\ got = {}
    /\ startChild = FALSE
    /\ settings \in SettingsSet
    /\ services = DocA
    /\ service_hashes = NoServices
    /\ sup = <<>>
    /\ command = "run"
    /\ startRes = "none"
    /\ logsFs \in IF settings.logs THEN [{0} -> LogsKinds] ELSE {NoLogs}
    /\ cfgFs = NoDirs
    /\ inp = <<>>
    /\ out = <<>>
    /\ reloaded = "none"
    /\ ctrl_c = FALSE
    /\ logs_dir = NoLogsDir
    /\ new_config = NoServices

Next ==
    \/ ControllerStart
    \/ StartupExit
    \/ StartupJoinAll
    \/ SpawnLogsDir
    \/ SpawnChildProcesses
    \/ SelectPoll
    \/ \E i \in Tasks : JoinNext(i)
    \/ JoinNone
    \/ \E sig \in Signals : OnShutdownSignal(sig)
    \/ \E i \in Tasks : DrainNext(i)
    \/ DrainDone
    \/ ReloadBegin
    \/ \E doc \in Docs : ReloadFail(doc)
    \/ \E doc \in Docs : ReloadLogsDir(doc)
    \/ \E doc \in Docs : ReloadOk(doc)
    \/ \E sig \in Signals : Deliver(sig)
    \/ \E i \in Tasks : SupNew(i)
    \/ \E i \in Tasks : SupSymlink(i)
    \/ \E i \in Tasks : SupSpawn(i)
    \/ \E i \in Tasks : SupShutdownRecv(i)
    \/ \E i \in Tasks : SupKillWait(i)
    \/ \E i \in Tasks : SupChildExit(i)
    \/ \E i \in Tasks : SupTimer(i)
    \/ \E i \in Tasks : SupDelayElapsed(i)
    \/ \E i \in Tasks : SupDelayShutdown(i)

Spec == Init /\ [][Next]_vars

----------------------------------------------------------------------------
(* The program under either subcommand *)

\* Command: the subcommands of the command line
Commands == {"validate", "run"}

\* the Service main writes twice: argv nix, run, nixpkgs#http-server, and
\* the defaults for the rest
SvcHttp == [argv |-> << <<1>>, <<2>>, <<3>> >>, config_data |-> NoConfigData]

\* the services main gives ProcessManager::new: two services of the same
\* argv under two names.  The file of --config is not read.
MainServices == ("HTTP Server" :> SvcHttp) @@ ("HTTP Server 2" :> SvcHttp)

\* main has parsed the command line; it passes no settings
MainInit ==
    /\ ctl = "init"
    /\ result = "none"
    /\ registered = {}
    /\ pend = {}
    /\ cancelled = FALSE
    /\ sigs = 0
    /\ got = {}
    /\ startChild = FALSE
    /\ settings = DefaultSettings
    /\ services = MainServices
    /\ service_hashes = NoServices
    /\ sup = <<>>
    /\ command \in Commands
    /\ startRes = "none"
    /\ logsFs = NoLogs
    /\ cfgFs = NoDirs
    /\ inp = <<>>
    /\ out = <<>>
    /\ reloaded = "none"
    /\ ctrl_c = FALSE
    /\ logs_dir = NoLogsDir
    /\ new_config = NoServices

\* the documents a reload of this program reads: its two services again, or
\* none
MainDocs == {MainServices, DocNone}

\* run as main calls it: without a startup binary, a logs path, config_data
\* and restarts, the steps of Next that belong to these do not occur
MainNext ==
    \/ ControllerStart
    \/ SpawnChildProcesses
    \/ SelectPoll
    \/ \E i \in Tasks : JoinNext(i)
    \/ JoinNone
    \/ \E sig \in Signals : OnShutdownSignal(sig)
    \/ \E i \in Tasks : DrainNext(i)
    \/ DrainDone
    \/ ReloadBegin
    \/ \E doc \in MainDocs : ReloadFail(doc)
    \/ \E doc \in MainDocs : ReloadOk(doc)
    \/ \E sig \in Signals : Deliver(sig)
    \/ \E i \in Tasks : SupNew(i)
    \/ \E i \in Tasks : SupSpawn(i)
    \/ \E i \in Tasks : SupShutdownRecv(i)
    \/ \E i \in Tasks : SupKillWait(i)
    \/ \E i \in Tasks : SupChildExit(i)

MainSpec == MainInit /\ [][MainNext]_vars

----------------------------------------------------------------------------
(* A Supervisor on its own *)

\* Two Supervisors just spawned by spawn_child_processes, the Controller
\* waiting in the select of its loop
SupervisorInit ==
    /\ ctl = "loop"
    /\ result = "none"
    /\ registered = Signals
    /\ pend = {}
    /\ cancelled = FALSE
    /\ sigs = 0
    /\ got = {}
    /\ startChild = FALSE
    /\ settings \in RestartSettings
    /\ services = NoServices
    /\ service_hashes = Hashes(DocAB)
    /\ sup = SpawnAll(DocAB, DOMAIN DocAB, NoLogsDir, settings)
    /\ command = "run"
    /\ startRes = "none"
    /\ logsFs = NoLogs
    /\ cfgFs = NoDirs
    /\ inp = <<>>
    /\ out = <<>>
    /\ reloaded = "none"
    /\ ctrl_c = TRUE
    /\ logs_dir = NoLogsDir
    /\ new_config = NoServices

\* the steps of the Supervisors, and of the Controller those that send the
\* shutdown message: a TERM is delivered and its branch of the loop is taken
SupervisorNext ==
    \/ \E sig \in {"TERM"} : Deliver(sig)
    \/ \E sig \in {"TERM"} : OnShutdownSignal(sig)
    \/ \E i \in Tasks : SupNew(i)
    \/ \E i \in Tasks : SupSymlink(i)
    \/ \E i \in Tasks : SupSpawn(i)
    \/ \E i \in Tasks : SupShutdownRecv(i)
    \/ \E i \in Tasks : SupKillWait(i)
    \/ \E i \in Tasks : SupChildExit(i)
    \/ \E i \in Tasks : SupTimer(i)
    \/ \E i \in Tasks : SupDelayElapsed(i)
    \/ \E i \in Tasks : SupDelayShutdown(i)

SupervisorSpec == SupervisorInit /\ [][SupervisorNext]_vars

----------------------------------------------------------------------------
(* The program with the ends of its log demultiplexer tasks *)

\* the task Logger::start spawned leaves its loop: next_line returned
\* Ok(None) (the child closed the stream or is gone) or an error.  Nothing
\* holds the task's JoinHandle, so no other task waits for this.
LoggerEnds(i) ==
    /\ Alive
    /\ sup[i].demux > 0
    /\ sup' = [sup EXCEPT ![i].demux = @ - 1]
    /\ UNCHANGED << ctrl_c, logs_dir, new_config,
                    command, startRes, logsFs, cfgFs, inp, out, reloaded,
                    ctl, result, registered, pend, cancelled, sigs, got, startChild,
                    settings, services, service_hashes >>

\* one configuration with a startup binary, a logs path, restarts and a
\* restart delay
LoggerSettings ==
    {[DefaultSettings EXCEPT !.startup = TRUE, !.logs = TRUE,
                             !.mode = "up-to-count", !.count = 1, !.time = 1]}

\* run is called with that configuration and the service a
LoggerInit ==
    /\ ctl = "init"
    /\ result = "none"
    /\ registered = {}
    /\ pend = {}
    /\ cancelled = FALSE
    /\ sigs = 0
    /\ got = {}
    /\ startChild = FALSE
    /\ settings \in LoggerSettings
    /\ services = DocA
    /\ service_hashes = NoServices
    /\ sup = <<>>
    /\ command = "run"
    /\ startRes = "none"
    /\ logsFs = NoLogs
    /\ cfgFs = NoDirs
    /\ inp = <<>>
    /\ out = <<>>
    /\ reloaded = "none"
    /\ ctrl_c = FALSE
    /\ logs_dir = NoLogsDir
    /\ new_config = NoServices

LoggerNext == Next \/ \E i \in Tasks : LoggerEnds(i)

LoggerSpec == LoggerInit /\ [][LoggerNext]_vars

----------------------------------------------------------------------------
(* The program with reloads that remove a service *)

ReloadInit == LoggerInit

ReloadNext == Next \/ ReloadLogsDir(DocNone) \/ ReloadOk(DocNone)

ReloadSpec == ReloadInit /\ [][ReloadNext]_vars

----------------------------------------------------------------------------
(* The functions studied on their own *)

\* the variables of the running program
progVars == << ctl, result, registered, pend, cancelled, sigs, got, startChild,
               settings, services, service_hashes, sup, command, startRes,
               reloaded, ctrl_c, logs_dir, new_config >>

\* the program has not been started
NotStarted ==
    /\ ctl = "init"
    /\ result = "none"
    /\ registered = {}
    /\ pend = {}
    /\ cancelled = FALSE
    /\ sigs = 0
    /\ got = {}
    /\ startChild = FALSE
    /\ settings = DefaultSettings
    /\ services = NoServices
    /\ service_hashes = NoServices
    /\ sup = <<>>
    /\ command = "run"
    /\ startRes = "none"
    /\ reloaded = "none"
    /\ ctrl_c = FALSE
    /\ logs_dir = NoLogsDir
    /\ new_config = NoServices

\* longest string of the enumerated services
MaxStrLen == 2

\* largest number of arguments of the enumerated services
MaxArgs == 1

\* largest number of config_data keys of the enumerated services
MaxKeys == 2

\* the bytes strings are made of; none of them is NUL
Bytes == {1, 2}

RECURSIVE SeqsUpTo(_, _)
\* the sequences over S of length at most n
SeqsUpTo(S, n) ==
    IF n = 0 THEN {<<>>}
    ELSE LET R == SeqsUpTo(S, n - 1)
         IN  R \cup {Append(r, x) : r \in {q \in R : Len(q) = n - 1}, x \in S}

\* the non-empty strings
Strs == SeqsUpTo(Bytes, MaxStrLen) \ {<<>>}

\* the services service_hash is applied to
HashServices ==
    { [argv |-> <<b>> \o as,
       config_data |-> [k \in ks |-> [path |-> "p", source |-> "s"]]] :
        b \in Strs,
        as \in SeqsUpTo(Strs, MaxArgs),
        ks \in {K \in SUBSET Strs : Cardinality(K) <= MaxKeys} }

HashInit ==
    /\ NotStarted
    /\ logsFs = NoLogs
    /\ cfgFs = NoDirs
    /\ inp \in HashServices \X HashServices
    /\ out = <<>>

\* service_hash is applied to the two services of inp
ApplyServiceHash ==
    /\ out = <<>>
    /\ out' = << [stream |-> HashInput(inp[1]), hash |-> service_hash(inp[1])],
                 [stream |-> HashInput(inp[2]), hash |-> service_hash(inp[2])] >>
    /\ UNCHANGED << progVars, logsFs, cfgFs, inp >>

HashNext == ApplyServiceHash

HashSpec == HashInit /\ [][HashNext]_vars

\* A call of ConfigDir::new, and the create_service_child of the Supervisor
\* that made it, step by step: out[k] is call k.
\*   pc     "start"   before fs::create_dir
\*          "links"   in the loop over config_data.values()
\*          "ready"   ConfigDir::new returned Ok
\*          "err"     ConfigDir::new returned Err
\*          "spawned" create_service_child has spawned the child
\*   order  the iteration order of the call's config_data
\*   dir    the name of the config directory
\*   next   the position of the loop over config_data.values()
\*   later  the other call had returned when this one began
\*   fs     the temporary directory when the call returned
\*   seen   the links the directory held when the child was spawned
ConfigDirStart ==
    [pc |-> "start", order |-> <<>>, dir |-> <<>>, next |-> 1,
     later |-> FALSE, fs |-> NoDirs, seen |-> {}]

\* the call has returned
ConfigDirReturned(c) == c.pc \in {"ready", "err", "spawned"}

\* the config_data maps of two calls, and an empty temporary directory
ConfigDirInit ==
    /\ NotStarted
    /\ logsFs = NoLogs
    /\ cfgFs = NoDirs
    /\ inp \in ConfigMaps \X ConfigMaps
    /\ out = << ConfigDirStart, ConfigDirStart >>

\* ConfigDir::new up to the match on fs::create_dir: AlreadyExists returns
\* the directory at once, another error is returned, Ok goes on to the loop
ConfigDirCreate(k) ==
    /\ out[k].pc = "start"
    /\ \E order \in IterationOrders(DOMAIN inp[k]), mkdirFails \in BOOLEAN :
         LET dir_name == generate_config_directory_name(inp[k], order)
             r == fs_create_dir(cfgFs, dir_name, mkdirFails)
             s == [out[k] EXCEPT
                     !.order = order, !.dir = dir_name,
                     !.later = \A j \in DOMAIN out \ {k} : ConfigDirReturned(out[j])]
         IN  /\ cfgFs' = r.fs
             /\ out' = [out EXCEPT ![k] =
                    CASE r.res = "already_exists" -> [s EXCEPT !.pc = "ready", !.fs = r.fs]
                      [] r.res = "err" -> [s EXCEPT !.pc = "err", !.fs = r.fs]
                      [] r.res = "ok" ->
                           IF order = <<>> THEN [s EXCEPT !.pc = "ready", !.fs = r.fs]
                           ELSE [s EXCEPT !.pc = "links"]]
    /\ UNCHANGED << progVars, logsFs, inp >>

\* one turn of the loop over config_data.values(): fs::symlink, whose error
\* is returned; after the last turn ConfigDir::new returns Ok
ConfigDirSymlink(k) ==
    /\ out[k].pc = "links"
    /\ \E fails \in BOOLEAN :
         LET s == out[k]
             r == fs_symlink(cfgFs, s.dir, inp[k][s.order[s.next]], fails)
         IN  /\ cfgFs' = r.fs
             /\ out' = [out EXCEPT ![k] =
                    IF r.res = "err" THEN [s EXCEPT !.pc = "err", !.fs = r.fs]
                    ELSE IF s.next = Len(s.order)
                    THEN [s EXCEPT !.pc = "ready", !.next = s.next + 1, !.fs = r.fs]
                    ELSE [s EXCEPT !.next = s.next + 1]]
    /\ UNCHANGED << progVars, logsFs, inp >>

ConfigDirNext ==
    \/ \E k \in DOMAIN out : ConfigDirCreate(k)
    \/ \E k \in DOMAIN out : ConfigDirSymlink(k)

ConfigDirSpec == ConfigDirInit /\ [][ConfigDirNext]_vars

\* Two Supervisors in ServiceManager::new and create_service_child
StagingInit == ConfigDirInit

\* create_service_child: the child starts with XDG_CONFIG_HOME set to the
\* directory as it is now
CreateServiceChild(k) ==
    /\ out[k].pc = "ready"
    /\ out' = [out EXCEPT ![k].pc = "spawned", ![k].seen = cfgFs[out[k].dir]]
    /\ UNCHANGED << progVars, logsFs, cfgFs, inp >>

StagingNext ==
    \/ \E k \in DOMAIN out : ConfigDirCreate(k)
    \/ \E k \in DOMAIN out : ConfigDirSymlink(k)
    \/ \E k \in DOMAIN out : CreateServiceChild(k)

StagingSpec == StagingInit /\ [][StagingNext]_vars

----------------------------------------------------------------------------
(* Service::run *)

\* Two calls of Service::run, each with its own shutdown_rx: out[k] is call
\* k on the service inp[k].
\*   pc     "start"   before the check of process.argv
\*          "mkdir"   create_config_directory: try_exists answered false
\*          "links"   create_config_directory: in the loop over
\*                    config_data.values()
\*          "run"     in the select of the loop, child alive
\*          "kill"    in process.kill(): SIGKILL is sent, the exit is awaited
\*          "wait"    after the loop, in process.wait()
\*          "done"    the call returned
\*   res      what the call returned: "none", "ok", "err"
\*   rx       a message is waiting in shutdown_rx
\*   order, dir, next   as for ConfigDir::new
\*   children the number of children the call has spawned
\*   sent     the signals the call has sent to its child
ServiceRunStart ==
    [pc |-> "start", res |-> "none", rx |-> FALSE, order |-> <<>>, dir |-> <<>>,
     next |-> 1, children |-> 0, sent |-> <<>>]

\* the services Service::run is applied to: with and without an executable,
\* with no, one and two config_data entries
RunServices ==
    { [argv |-> a, config_data |-> m] :
        a \in {<<>>, << <<1>> >>},
        m \in {NoConfigData, OneConfigData,
               (<<1>> :> [path |-> "p", source |-> "s"])
                   @@ (<<2>> :> [path |-> "q", source |-> "s"])} }

ServiceRunInit ==
    /\ NotStarted
    /\ logsFs = NoLogs
    /\ cfgFs = NoDirs
    /\ inp \in RunServices \X RunServices
    /\ out = << ServiceRunStart, ServiceRunStart >>

\* the call returns Err
ServiceRunErr(s) == [s EXCEPT !.pc = "done", !.res = "err"]

\* spawn_process after create_config_directory returned: Command::spawn
ServiceSpawnProcess(s, spawned) ==
    IF spawned THEN [s EXCEPT !.pc = "run", !.children = @ + 1]
    ELSE ServiceRunErr(s)

\* run up to the first await: an empty process.argv is an error; else
\* create_config_directory computes the name and asks fs::try_exists, whose
\* error is returned; a directory that exists is returned as it is and the
\* child is spawned
ServiceRunBegin(k) ==
    /\ out[k].pc = "start"
    /\ IF inp[k].argv = <<>>
       THEN out' = [out EXCEPT ![k] = ServiceRunErr(out[k])]
       ELSE \E order \in IterationOrders(DOMAIN inp[k].config_data),
               checked \in BOOLEAN, spawned \in BOOLEAN :
              LET dir_name == generate_config_directory_name(inp[k].config_data, order)
                  s == [out[k] EXCEPT !.order = order, !.dir = dir_name]
              IN  out' = [out EXCEPT ![k] =
                     IF ~checked THEN ServiceRunErr(s)
                     ELSE IF dir_name \in DOMAIN cfgFs
                     THEN ServiceSpawnProcess(s, spawned)
                     ELSE [s EXCEPT !.pc = "mkdir"]]
    /\ UNCHANGED << progVars, logsFs, cfgFs, inp >>

\* create_config_directory, fs::create_dir: every error is returned, also
\* AlreadyExists when the directory was made since try_exists; with no
\* config_data the directory is complete and the child is spawned
ServiceRunCreateDir(k) ==
    /\ out[k].pc = "mkdir"
    /\ \E mkdirFails \in BOOLEAN, spawned \in BOOLEAN :
         LET s == out[k]
             r == fs_create_dir(cfgFs, s.dir, mkdirFails)
         IN  /\ cfgFs' = r.fs
             /\ out' = [out EXCEPT ![k] =
                    IF r.res # "ok" THEN ServiceRunErr(s)
                    ELSE IF s.order = <<>> THEN ServiceSpawnProcess(s, spawned)
                    ELSE [s EXCEPT !.pc = "links"]]
    /\ UNCHANGED << progVars, logsFs, inp >>

\* create_config_directory, one turn of the loop over config_data.values();
\* after the last turn the child is spawned
ServiceRunSymlink(k) ==
    /\ out[k].pc = "links"
    /\ \E fails \in BOOLEAN, spawned \in BOOLEAN :
         LET s == out[k]
             r == fs_symlink(cfgFs, s.dir, inp[k].config_data[s.order[s.next]], fails)
         IN  /\ cfgFs' = r.fs
             /\ out' = [out EXCEPT ![k] =
                    IF r.res = "err" THEN ServiceRunErr(s)
                    ELSE IF s.next = Len(s.order)
                    THEN ServiceSpawnProcess([s EXCEPT !.next = s.next + 1], spawned)
                    ELSE [s EXCEPT !.next = s.next + 1]]
    /\ UNCHANGED << progVars, logsFs, inp >>

\* the sender of the shutdown channel sends: every receiver gets the message
ServiceRunMessage ==
    /\ \E k \in DOMAIN out : ~out[k].rx /\ out[k].pc # "done"
    /\ out' = [k \in DOMAIN out |->
                 IF out[k].pc # "done" THEN [out[k] EXCEPT !.rx = TRUE] ELSE out[k]]
    /\ UNCHANGED << progVars, logsFs, cfgFs, inp >>

\* select of the loop, branch shutdown_rx.recv(), up to the await inside
\* process.kill(): SIGKILL is sent; a kill that cannot be sent is returned
ServiceRunShutdown(k) ==
    /\ out[k].pc = "run"
    /\ out[k].rx
    /\ \E sent_ok \in BOOLEAN :
         LET s == [out[k] EXCEPT !.rx = FALSE]
         IN  out' = [out EXCEPT ![k] =
                IF sent_ok THEN [s EXCEPT !.pc = "kill", !.sent = @ \o KillSignals]
                ELSE ServiceRunErr(s)]
    /\ UNCHANGED << progVars, logsFs, cfgFs, inp >>

\* process.kill() resumes, then process.wait(): the child was reaped and run
\* returns Ok(()), or the wait failed and the error is returned
ServiceRunKillWait(k) ==
    /\ out[k].pc = "kill"
    /\ \E reaped \in BOOLEAN :
         out' = [out EXCEPT ![k] =
                   IF reaped THEN [out[k] EXCEPT !.pc = "done", !.res = "ok"]
                   ELSE ServiceRunErr(out[k])]
    /\ UNCHANGED << progVars, logsFs, cfgFs, inp >>

\* select of the loop, branches stdout_reader.next_line() and
\* stderr_reader.next_line(): the stream ended or gave an error, and run
\* breaks out of the loop (a line read is logged and the loop goes on, which
\* changes nothing here)
ServiceRunStreamEnd(k) ==
    /\ out[k].pc = "run"
    /\ out' = [out EXCEPT ![k].pc = "wait"]
    /\ UNCHANGED << progVars, logsFs, cfgFs, inp >>

\* process.wait() after the loop: a failed wait and a status other than 0 are
\* errors; there is no restart
ServiceRunWait(k) ==
    /\ out[k].pc = "wait"
    /\ \E st \in {"exit0", "exitN", "wait_failed"} :
         out' = [out EXCEPT ![k] =
                   IF st = "exit0" THEN [out[k] EXCEPT !.pc = "done", !.res = "ok"]
                   ELSE ServiceRunErr(out[k])]
    /\ UNCHANGED << progVars, logsFs, cfgFs, inp >>

ServiceRunNext ==
    \/ \E k \in DOMAIN out : ServiceRunBegin(k)
    \/ \E k \in DOMAIN out : ServiceRunCreateDir(k)
    \/ \E k \in DOMAIN out : ServiceRunSymlink(k)
    \/ ServiceRunMessage
    \/ \E k \in DOMAIN out : ServiceRunShutdown(k)
    \/ \E k \in DOMAIN out : ServiceRunKillWait(k)
    \/ \E k \in DOMAIN out : ServiceRunStreamEnd(k)
    \/ \E k \in DOMAIN out : ServiceRunWait(k)

ServiceRunSpec == ServiceRunInit /\ [][ServiceRunNext]_vars

\* largest N for which logs-N may be there before the first run
MaxLogNo == 2

\* number of successive runs against the same logs path
MaxRuns == 2

\* a logs path left behind by earlier runs and other programs
LogsInit ==
    /\ NotStarted
    /\ logsFs \in [0..MaxLogNo -> LogsKinds]
    /\ cfgFs = NoDirs
    /\ inp = <<>>
    /\ out = <<>>

\* one run calls create_logs_dir once at startup; before is the logs path the
\* call found.  The call fails when create_dir_all fails for a reason other
\* than AlreadyExists.
LogsRun ==
    /\ Len(out) < MaxRuns
    /\ \E ok \in BOOLEAN :
         IF ok
         THEN LET r == create_logs_dir(logsFs)
              IN  /\ logsFs' = r.fs
                  /\ out' = Append(out, [no |-> r.no, before |-> logsFs])
         ELSE /\ logsFs' = logsFs
              /\ out' = Append(out, [no |-> NoLogsDir, before |-> logsFs])
    /\ UNCHANGED << progVars, cfgFs, inp >>

LogsNext == LogsRun

LogsSpec == LogsInit /\ [][LogsNext]_vars

----------------------------------------------------------------------------
(* Claims *)

Returned(i) == sup[i].pc = "ok"

AllJoined == \A i \in Tasks : sup[i].joined

\* C1: once cancellation is set no Supervisor spawns a child: no step taken
\* while cancelled is TRUE moves a Supervisor into the select of
\* spawn_service_process with a freshly spawned child.
NoSpawnAfterCancellation ==
    [][cancelled =>
         \A i \in Tasks : ~(sup[i].pc # "run" /\ sup'[i].pc = "run")]_vars

\* C2: under mode always a Supervisor returns only after cancellation was set,
\* whatever status its child exited with.
AlwaysReturnsOnlyWhenCancelled ==
    settings.mode = "always" =>
        \A i \in Tasks : Returned(i) => cancelled

\* C3: under mode up-to-count with count k the restart counter stays in 0..k,
\* every restart has been counted (attempts = counter + 1 while a child runs
\* and when the run is over, attempts = counter while the next attempt is
\* pending or was called off by cancellation), so there are at most k + 1
\* attempts and at least one when the run returns; k = 0 gives exactly one
\* attempt; and a run that returns because of a failed attempt made exactly
\* k + 1 attempts and returns Ok.
UpToCountAttempts ==
    settings.mode = "up-to-count" =>
        \A i \in Tasks :
            LET s == sup[i] k == settings.count IN
            /\ s.cnt \in 0..k
            /\ s.attempts <= k + 1
            /\ s.pc \in {"run", "kill"} => s.attempts = s.cnt + 1
            /\ s.pc \in {"new", "links"} => s.attempts = 0
            /\ s.pc = "ok" => /\ s.attempts >= 1
                              /\ s.attempts = IF s.last = "delay_shutdown"
                                              THEN s.cnt ELSE s.cnt + 1
            /\ s.pc = "delay" => (s.attempts >= 1 /\ s.attempts = s.cnt)
            /\ s.pc = "spawn" => s.attempts = s.cnt
            /\ s.pc = "err" => s.attempts = 0
            /\ (s.pc = "ok" /\ k = 0) => s.attempts = 1
            /\ (s.pc \in {"ok", "err"} /\ s.last \in {"exitN", "spawn_failed", "kill_err"})
                   => (s.attempts = k + 1 /\ s.pc = "ok")

\* a Supervisor under up-to-count with k >= 1 whose attempts all failed and
\* that returned without any cancellation
UpToCountExhausted ==
    /\ settings.mode = "up-to-count"
    /\ settings.count >= 1
    /\ ~cancelled
    /\ \E i \in Tasks : /\ sup[i].pc = "ok"
                        /\ sup[i].last = "exitN"
                        /\ sup[i].attempts = settings.count + 1
                        /\ sup[i].cnt = settings.count

\* C4: under mode never a Supervisor makes exactly one spawn attempt: never
\* more than one, and exactly one once it is past the first spawn.
NeverOneAttempt ==
    settings.mode = "never" =>
        \A i \in Tasks :
            /\ sup[i].attempts <= 1
            /\ sup[i].pc \in {"run", "kill", "delay", "ok"} => sup[i].attempts = 1
            /\ sup[i].pc # "delay"

\* under never: one Supervisor returned after a non-zero exit, another after
\* being cancelled, each with one attempt
NeverReturned ==
    /\ settings.mode = "never"
    /\ \E i \in Tasks : sup[i].pc = "ok" /\ sup[i].last = "exitN" /\ sup[i].attempts = 1
    /\ \E i \in Tasks : sup[i].pc = "ok" /\ sup[i].last = "kill_ok" /\ sup[i].attempts = 1

\* C5: a spawn failure ends the Supervisor with an error, at once: after a
\* failed create_service_child the task has returned Err; and a Supervisor
\* that ran a child returns Ok.
SpawnFailureIsFatal ==
    \A i \in Tasks :
        /\ sup[i].last = "spawn_failed" => sup[i].pc = "err"
        /\ (Completed(i) /\ sup[i].last \in {"exit0", "exitN", "kill_ok", "delay_shutdown"})
               => sup[i].pc = "ok"

\* C6: when a service could not be spawned, run ends with an error result.
SpawnFailureFailsRun ==
    (ctl = "done" /\ \E i \in Tasks : sup[i].last = "spawn_failed") => result = "err"

\* C7: cancellation is set only by the interrupt or terminate branch of the
\* loop: a step that sets it leaves the loop for the drain, with INT or TERM
\* pending before it; joining a failed Supervisor or a reload never sets it.
CancelOnlyOnSignal ==
    [][(~cancelled /\ cancelled') =>
          /\ ctl = "loop" /\ ctl' = "drain"
          /\ pend \cap {"INT", "TERM"} # {}
          /\ pend' # pend]_vars

\* the Controller has joined a Supervisor that returned Err, a reload has
\* added a Supervisor, and a peer still runs its child, uncancelled
ErrorJoinedPeerRuns ==
    /\ ~cancelled
    /\ ctl = "loop"
    /\ \E i \in Tasks : sup[i].pc = "err" /\ sup[i].joined
    /\ \E i \in Tasks : sup[i].pc = "run" /\ ~sup[i].rx

\* C8: when run has returned from the loop every Supervisor of the task set,
\* those added by reloads included, has completed and been joined; a signal
\* branch sets cancellation and starts the drain; and with an empty task set
\* and no signal pending or arriving the only step of the Controller is to
\* leave the loop with Ok.
DrainsBeforeReturn ==
    /\ [](ctl = "done" /\ result = "ok" => \A i \in Tasks : Completed(i) /\ sup[i].joined)
    /\ [](ctl = "drain" => cancelled)
    /\ [][(ctl = "loop" /\ AllJoined /\ pend = {} /\ sigs' = sigs /\ ctl' # ctl)
             => (ctl' = "done" /\ result' = "ok")]_vars

\* run returned after a signal with two Supervisors drained, one of them
\* added by a reload
DrainedAfterReload ==
    /\ ctl = "done"
    /\ cancelled
    /\ Len(sup) = 2
    /\ \E i \in Tasks : sup[i].last = "kill_ok"

\* C9: an interrupt or terminate delivered after the Controller started leads
\* to cancellation: the process never ends (run returned, or the process was
\* terminated) with such a signal delivered and cancellation not set.
SignalLeadsToCancellation ==
    (ctl \in {"done", "killed"} /\ got # {}) => cancelled

\* C10: when a child process exists (the startup program or a service's
\* child) the handlers of INT, TERM and HUP are registered.
HandlersBeforeChildren ==
    (startChild \/ \E i \in Tasks : sup[i].attempts > 0) => Signals \subseteq registered

\* C11: with a startup program configured, a Supervisor exists (and so a
\* service child can be spawned) only after the startup program has exited
\* with status 0; while it runs there is no Supervisor; and when it could not
\* be spawned or exited with another status, run has returned an error
\* without spawning any Supervisor.
StartupBeforeServices ==
    /\ (settings.startup /\ sup # <<>>) => startRes = "exit0"
    /\ startRes = "running" => sup = <<>>
    /\ startRes \in {"spawn_failed", "exitN"} =>
          (ctl = "done" /\ result = "err" /\ sup = <<>>)

\* a service child was spawned after the startup program exited with status 0
ServiceAfterStartup ==
    /\ settings.startup
    /\ startRes = "exit0"
    /\ \E i \in Tasks : sup[i].attempts > 0

\* reload_config is running
ReloadRuns == ctl \in {"reload", "reload_spawn"}

\* a step in which reload_config returned
ReloadReturns == ReloadRuns /\ ctl' = "loop"

\* C12: a successful reload spawns, for each service name of the new
\* document, exactly one new Supervisor (of the new definition) when the name
\* is new or its fingerprint changed and none when the fingerprint is
\* unchanged; it spawns nothing else, and every Supervisor that existed
\* before the reload is left exactly as it was.
ReloadSpawnsExactlyChanged ==
    [][ (ReloadReturns /\ reloaded' = "ok") =>
          LET spawned == DOMAIN sup' \ DOMAIN sup
          IN  /\ \A i \in DOMAIN sup : i \in DOMAIN sup' /\ sup'[i] = sup[i]
              /\ \A i \in spawned : /\ sup'[i].name \in DOMAIN services'
                                     /\ sup'[i].svc = services'[sup'[i].name]
                                     /\ sup'[i].pc = "new"
              /\ \A n \in DOMAIN services' :
                    Cardinality({i \in spawned : sup'[i].name = n}) =
                        IF n \in DOMAIN service_hashes
                           /\ service_hashes[n] = service_hash(services'[n])
                        THEN 0 ELSE 1 ]_vars

\* a reload replaced the definition of a service: the Supervisor of the old
\* definition is still running its child next to the one of the new definition
ChangedServiceReloaded ==
    /\ reloaded = "ok"
    /\ \E i, j \in Tasks : /\ i < j
                            /\ sup[i].name = sup[j].name
                            /\ sup[i].svc # sup[j].svc
                            /\ sup[i].pc = "run"

\* C13: a reload is all-or-nothing: when reload_config fails, the fingerprint
\* map, the Supervisors and the Controller's service records are what they
\* were before; when it succeeds, the fingerprint map has exactly the service
\* names of the new document, each with the fingerprint of its new definition.
ReloadAllOrNothing ==
    [][ ReloadReturns =>
          /\ reloaded' = "failed" => UNCHANGED << service_hashes, sup, services >>
          /\ reloaded' = "ok" =>
                /\ DOMAIN service_hashes' = DOMAIN services'
                /\ \A n \in DOMAIN services' :
                      service_hashes'[n] = service_hash(services'[n]) ]_vars

\* a reload failed after an earlier reload had added service b
FailedAfterSuccessfulReload ==
    /\ reloaded = "failed"
    /\ services = DocAB
    /\ DOMAIN service_hashes = {"a", "b"}
    /\ Len(sup) = 2

\* C14: the byte stream fed to the hasher is unambiguous: two services that
\* differ in the executable, in the arguments or in the set of config_data
\* keys never give the same byte stream, and two services equal in all three
\* give the same fingerprint.
FingerprintUnambiguous ==
    out # <<>> =>
        LET a == inp[1]
            b == inp[2]
            differ == \/ binary(a) # binary(b)
                      \/ args(a) # args(b)
                      \/ DOMAIN a.config_data # DOMAIN b.config_data
        IN  /\ differ => out[1].stream # out[2].stream
            /\ ~differ => out[1].hash = out[2].hash

\* C15: two services with equal config_data maps get the same directory
\* name, whatever the order in which the maps are iterated and serialised.
DirectoryNameDeterministic ==
    (out[1].pc # "start" /\ out[2].pc # "start" /\ inp[1] = inp[2]) =>
        out[1].dir = out[2].dir

\* C16: materialising the same config_data a second time returns the same
\* directory and leaves the temporary directory, and so the symlinks of that
\* directory, as the first call left them.
SecondMaterialiseIsNoOp ==
    \A j, k \in DOMAIN out :
        (/\ inp[j] = inp[k]
         /\ out[j].pc = "ready"
         /\ out[k].pc = "ready"
         /\ out[k].later) =>
            /\ out[k].dir = out[j].dir
            /\ out[k].fs = out[j].fs

\* C17: create_logs_dir returns logs-N for the lowest N at which no directory
\* was there before the call (every lower N was taken), so that the
\* directories of successive runs against one logs path are pairwise distinct.
LogsDirIsFresh ==
    /\ \A k \in DOMAIN out :
          out[k].no # NoLogsDir =>
              /\ EntryAt(out[k].before, out[k].no) # "dir"
              /\ \A m \in 0..(out[k].no - 1) : EntryAt(out[k].before, m) # "absent"
    /\ \A j, k \in DOMAIN out :
          (j # k /\ out[j].no # NoLogsDir /\ out[k].no # NoLogsDir) =>
              out[j].no # out[k].no

\* C18: within one run a single logs-N is used: all Supervisors, those
\* spawned at startup and those spawned by a reload, have the same logs
\* directory, and a reload leaves the logs path as it found it (it creates no
\* further logs-N).
SingleLogsDirPerRun ==
    /\ [](\A i, j \in Tasks : sup[i].logs = sup[j].logs)
    /\ [][ReloadRuns => logsFs' = logsFs]_vars

\* with a logs path, a reload has spawned a Supervisor next to the one spawned
\* at startup
ReloadSpawnedWithLogs ==
    /\ settings.logs
    /\ reloaded = "ok"
    /\ Len(sup) = 2
    /\ sup[1].logs # NoLogsDir
    /\ sup[2].logs # NoLogsDir

\* C19: under the subcommand validate the program spawns neither the startup
\* program nor a service; only run executes services.
ValidateSpawnsNothing ==
    command = "validate" =>
        /\ ~startChild
        /\ \A i \in Tasks : sup[i].attempts = 0

\* C20: on cancellation a live child is terminated gracefully, then by
\* force: a forced kill is sent only after the polite termination signal, and
\* the shutdown step returns Ok only after the child has been reaped.
GracefulThenForced ==
    \A i \in Tasks :
        (\E k \in DOMAIN sup[i].sent : sup[i].sent[k] = "KILL") =>
            Head(sup[i].sent) = "TERM"

\* once cancel_tok is cancelled it stays cancelled
CancelIsIrrevocable == [][cancelled => cancelled']_vars

\* a signal delivered after the cancellation changes neither the
\* cancellation, nor any Supervisor (no kill, no spawn), nor the Controller
LaterSignalHasNoEffect ==
    [][(cancelled /\ sigs' # sigs) => UNCHANGED << cancelled, sup, ctl, result >>]_vars

\* every Supervisor that has not returned and is not in the kill of its
\* shutdown branch still finds the cancellation when it looks for it
CancellationStaysObservable ==
    cancelled => \A i \in Tasks : (~Completed(i) /\ sup[i].pc # "kill") => sup[i].rx

\* C21: setting cancellation is irrevocable and idempotent: once set, no
\* task observes it as unset, and an interrupt or terminate signal received
\* after the first has no further effect.
CancellationIrrevocable ==
    /\ CancelIsIrrevocable
    /\ LaterSignalHasNoEffect
    /\ []CancellationStaysObservable

\* C22: a shutdown-initiated exit is never a failure: the steps in which a
\* Supervisor terminates its child because of the cancellation (it takes
\* the shutdown message while the child runs, and it comes back from the
\* kill), whether the kill succeeds or reports an error, lead to the
\* Supervisor returned Ok (it does not go on to the restart delay and so
\* never spawns again) and leave the restart counter as it was.
ShutdownExitIsSuccess ==
    [][ \A i \in DOMAIN sup :
          (/\ i \in DOMAIN sup'
           /\ \/ sup[i].pc = "run" /\ sup[i].rx /\ ~sup'[i].rx
              \/ sup[i].pc = "kill" /\ sup'[i].pc # "kill") =>
              /\ sup'[i].pc \in {"kill", "ok"}
              /\ sup'[i].cnt = sup[i].cnt ]_vars

\* C23: a Supervisor that terminated its child because of the cancellation
\* has joined the child's two log demultiplexer tasks before it returned:
\* once it is done, no demultiplexer task of its child is still running.
DemuxJoinedBeforeReturn ==
    \A i \in Tasks :
        (sup[i].pc = "ok" /\ sup[i].last = "kill_ok") => sup[i].demux = 0

\* C24: whenever a child is spawned with XDG_CONFIG_HOME set to a
\* materialised directory, the directory holds a symlink for every
\* ConfigDatum of the service, also when two Supervisors with equal
\* config_data materialise concurrently and when an earlier materialisation
\* of the same config_data failed part-way.
ConfigDirCompleteAtSpawn ==
    \A k \in DOMAIN out :
        out[k].pc = "spawned" =>
            \A key \in DOMAIN inp[k] :
                << inp[k][key].path, inp[k][key].source >> \in out[k].seen

\* C25: a reload spawns a Supervisor for a service name only if no
\* Supervisor of that name is running or the new fingerprint differs from
\* that of each running one: a service that one reload removed and a later
\* reload adds back unchanged, while its first Supervisor is still running,
\* gets no second concurrent Supervisor.
NoSecondConcurrentSupervisor ==
    [][ ReloadReturns =>
          \A i \in DOMAIN sup' \ DOMAIN sup :
              \A j \in DOMAIN sup :
                  (sup[j].name = sup'[i].name /\ ~Completed(j)) =>
                      service_hash(sup[j].svc) # service_hash(sup'[i].svc) ]_vars

\* C26: a reload leaves the process-wide settings unchanged (no step changes
\* them), and every Supervisor, also one spawned by a reload whose document
\* has another settings section, runs under the settings in force since
\* startup.
ReloadKeepsSettings ==
    /\ [][settings' = settings]_vars
    /\ [](\A i \in Tasks : sup[i].settings = settings)

\* under restart mode always, a Supervisor spawned by a reload has restarted
\* its service
ReloadedSupervisorRestarted ==
    /\ reloaded = "ok"
    /\ settings.mode = "always"
    /\ Len(sup) = 2
    /\ sup[2].attempts = 2

====
